---------------------------- MODULE Spec2Model ----------------------------
(***************************************************************************)
(* Model of cura::LinearAlg2D (src/utils/LinearAlg2D.cpp): the integer     *)
(* 2D geometry kernel of CuraEngine.  Every function of the kernel is pure;*)
(* a call is modelled as a two-step machine: Init draws the arguments of   *)
(* one call from bounded sets (pc = "call"), the function's action         *)
(* computes the return value exactly as the C++ code does (pc = "done").   *)
(* All arithmetic is int64_t arithmetic: '/' truncates toward zero and     *)
(* sqrt() results are truncated when stored in an int64_t.                 *)
(***************************************************************************)
EXTENDS Integers, Sequences, FiniteSets, TLC

VARIABLES pc, args, ret

vars == <<pc, args, ret>>

(***************************************************************************)
(* Bounds of the model.                                                    *)
(***************************************************************************)
\* coordinates of the points of getPointOnLineWithDist lie in -MaxCoord..MaxCoord
MaxCoord == 2
\* one coordinate value far enough from the others to give segments of
\* length >= 50 (the other branch of line 44)
FarCoord == 50
\* dist ranges over -1..MaxDist
MaxDist == 4

(***************************************************************************)
(* Program constants.                                                      *)
(***************************************************************************)
\* segments shorter than this use the normal(ab, 1000) form of the projection
ShortSegment == 50
\* the length the direction vector is scaled to in that form
NormalScale == 1000

(***************************************************************************)
(* C++ integer arithmetic.                                                 *)
(***************************************************************************)
Abs(x) == IF x < 0 THEN -x ELSE x

Max(x, y) == IF x < y THEN y ELSE x

\* a division that rounds toward minus infinity instead
TruncDivFloor(a, b) == a \div b

\* C++ '/' on int64_t, b # 0: the quotient truncated toward zero.
TruncDiv(a, b) ==
    IF (a >= 0) = (b > 0) THEN Abs(a) \div Abs(b) ELSE -(Abs(a) \div Abs(b))

RECURSIVE SqrtSearch(_, _, _)
\* the largest r in lo..hi with r * r <= n, given lo * lo <= n < (hi + 1)^2
SqrtSearch(n, lo, hi) ==
    IF lo >= hi THEN lo
    ELSE LET mid == (lo + hi + 1) \div 2
         IN  IF mid * mid <= n THEN SqrtSearch(n, mid, hi)
                               ELSE SqrtSearch(n, lo, mid - 1)

\* int64_t x = sqrt(n) for n >= 0: the double square root, truncated.
ISqrt(n) == SqrtSearch(n, 0, n)

(***************************************************************************)
(* Point and LineSegment (IntPoint.h, linearAlg2D.h).                      *)
(***************************************************************************)
Pt(x, y) == [X |-> x, Y |-> y]

Add(p, q) == Pt(p.X + q.X, p.Y + q.Y)

Sub(p, q) == Pt(p.X - q.X, p.Y - q.Y)

\* Point * scalar and Point / scalar act on each coordinate
Mul(p, i) == Pt(p.X * i, p.Y * i)

Div(p, i) == Pt(TruncDiv(p.X, i), TruncDiv(p.Y, i))

dot(p, q) == p.X * q.X + p.Y * q.Y

vSize2(p) == p.X * p.X + p.Y * p.Y

vSize(p) == ISqrt(vSize2(p))

\* p0 scaled to length len (a + normal(ab, ar_size) is the point of a-b at
\* distance ar_size from a, lines 61, 80, 102, 108), the length being the
\* truncated vSize; a zero vector gives (len, 0)
normal(p0, len) ==
    IF vSize(p0) < 1 THEN Pt(len, 0) ELSE Div(Mul(p0, len), vSize(p0))

Seg(f, t) == [from |-> f, to |-> t]

getVector(s) == Sub(s.to, s.from)

Grid(n) == [X : -n..n, Y : -n..n]

(***************************************************************************)
(* getPointOnLineWithDist(p, a, b, dist, result)                           *)
(***************************************************************************)
ab_size(a, b) == vSize(Sub(b, a))

ax_size(p, a, b) ==
    LET ab == Sub(b, a)
        ap == Sub(p, a)
    IN  IF ab_size(a, b) < ShortSegment
        THEN TruncDiv(dot(normal(ab, NormalScale), ap), NormalScale)
        ELSE TruncDiv(dot(ab, ap), ab_size(a, b))

px_size(p, a, b) ==
    LET ax == ax_size(p, a, b)
    IN  ISqrt(Max(0, vSize2(Sub(p, a)) - ax * ax))

\* only evaluated when px_size <= dist
xr_size(p, a, b, dist) ==
    LET px == px_size(p, a, b)
    IN  ISqrt(dist * dist - px * px)

\* The return value, whether result was assigned, and result after the call
\* (result0 is what the caller's Point held before it).
getPointOnLineWithDist(p, a, b, dist, result0) ==
    LET ab   == Sub(b, a)
        abs  == ab_size(a, b)
        ax   == ax_size(p, a, b)
        px   == px_size(p, a, b)
        No   == [found |-> FALSE, written |-> FALSE, result |-> result0]
        Yes(ar) == [found |-> TRUE, written |-> TRUE,
                    result |-> Add(a, normal(ab, ar))]
    IN  IF px > dist THEN No
        ELSE LET xr == xr_size(p, a, b, dist)
             IN  IF ax <= 0
                 THEN \* x lies before ab
                      LET ar == xr + ax
                      IN  IF ar < 0 \/ ar > abs THEN No ELSE Yes(ar)
                 ELSE IF ax >= abs
                 THEN \* x lies after ab
                      LET ar == ax - xr
                      IN  IF ar < 0 \/ ar > abs THEN No ELSE Yes(ar)
                 ELSE \* x lies on ab
                      LET ar1 == ax - xr
                          ar2 == ax + xr
                      IN  IF ar1 >= 0 THEN Yes(ar1)
                          ELSE IF ar2 < abs THEN Yes(ar2)
                          ELSE No

\* the points b may be: near a, or far enough for |ab| >= ShortSegment
FarPoints == {Pt(FarCoord, 0), Pt(0, -FarCoord), Pt(FarCoord, FarCoord + 1)}

NoPoint == Pt(0, 0)

InitDist ==
    /\ pc = "call"
    /\ args \in [fn : {"getPointOnLineWithDist"}, p : Grid(MaxCoord),
                 a : Grid(MaxCoord), b : Grid(MaxCoord) \cup FarPoints,
                 dist : -1..MaxDist, result : {NoPoint}]
    /\ ret = [fn |-> "none"]

GetPointOnLineWithDist ==
    /\ pc = "call"
    /\ args.fn = "getPointOnLineWithDist"
    /\ ret' = [fn |-> "getPointOnLineWithDist"] @@
              getPointOnLineWithDist(args.p, args.a, args.b, args.dist,
                                     args.result)
    /\ pc' = "done"
    /\ UNCHANGED args

NextDist == GetPointOnLineWithDist

SpecDist == InitDist /\ [][NextDist]_vars


\* 2D cross product (determinant) of two vectors
cross(u, v) == u.X * v.Y - u.Y * v.X

\* squared Euclidean distance from r to the segment a-b, compared with lim:
\* TRUE iff some point of the segment is within sqrt(lim) of r
NearSegment(r, a, b, lim) ==
    LET ab == Sub(b, a)
        ar == Sub(r, a)
        t  == dot(ar, ab)
    IN  IF t <= 0 THEN vSize2(ar) <= lim
        ELSE IF t >= vSize2(ab) THEN vSize2(Sub(r, b)) <= lim
        ELSE cross(ab, ar) * cross(ab, ar) <= lim * vSize2(ab)

\* | |p - r| - dist | <= 1, for dist >= 0
DistWithinOne(p, r, dist) ==
    LET d2 == vSize2(Sub(p, r))
    IN  /\ d2 <= (dist + 1) * (dist + 1)
        /\ dist >= 1 => d2 >= (dist - 1) * (dist - 1)

DistDone == pc = "done" /\ ret.fn = "getPointOnLineWithDist"

\* C1: whenever getPointOnLineWithDist returns true for dist >= 0, the written
\* result lies on the segment a-b (no coordinate more than one unit off it)
\* and | |p - result| - dist | <= 1.
C1_ResultOnSegmentAtDist ==
    (DistDone /\ args.dist >= 0 /\ ret.found) =>
        /\ NearSegment(ret.result, args.a, args.b, 2)
        /\ DistWithinOne(args.p, ret.result, args.dist)

\* C2: for a # b, whenever the perpendicular distance from p to the line
\* through a and b exceeds dist (cross(b-a, p-a)^2 > dist^2 * |b-a|^2), the
\* call returns false and leaves result unwritten.
C2_FalseWhenTooFar ==
    (/\ DistDone
     /\ args.a # args.b
     /\ cross(Sub(args.b, args.a), Sub(args.p, args.a))
          * cross(Sub(args.b, args.a), Sub(args.p, args.a))
        > args.dist * args.dist * vSize2(Sub(args.b, args.a)))
    => (~ret.found /\ ~ret.written)

\* C10: when the foot x lies on the segment (0 < ax < |ab|) and the backward
\* candidate ar1 = ax - xr is negative, the call succeeds iff the forward
\* candidate ar2 = ax + xr lies in the inclusive range [0, |ab|].
C10_ForwardCandidateInclusive ==
    (/\ DistDone
     /\ px_size(args.p, args.a, args.b) <= args.dist
     /\ 0 < ax_size(args.p, args.a, args.b)
     /\ ax_size(args.p, args.a, args.b) < ab_size(args.a, args.b)
     /\ ax_size(args.p, args.a, args.b)
          - xr_size(args.p, args.a, args.b, args.dist) < 0)
    => (ret.found <=>
          LET ar2 == ax_size(args.p, args.a, args.b)
                       + xr_size(args.p, args.a, args.b, args.dist)
          IN  0 <= ar2 /\ ar2 <= ab_size(args.a, args.b))

(***************************************************************************)
(* lineSegmentsCollide(a_from, a_to, b_from, b_to)                         *)
(***************************************************************************)
\* coordinates of segment a lie in -MaxCoordA..MaxCoordA, of b in
\* -MaxCoordB..MaxCoordB
MaxCoordA == 1
MaxCoordB == 2

\* a variant whose range test excludes a's far endpoint
lineSegmentsCollide_exclusive(a_from, a_to, b_from, b_to) ==
    IF \/ (b_from.Y >= a_from.Y /\ b_to.Y <= a_from.Y)
       \/ (b_to.Y >= a_from.Y /\ b_from.Y <= a_from.Y)
    THEN IF b_to.Y = b_from.Y
         THEN LET lo == IF b_to.X < b_from.X THEN b_to.X ELSE b_from.X
                  hi == IF b_to.X < b_from.X THEN b_from.X ELSE b_to.X
              IN  ~(lo > a_to.X) /\ ~(hi < a_from.X)
         ELSE LET x == b_from.X
                       + TruncDiv((b_to.X - b_from.X) * (a_from.Y - b_from.Y),
                                  b_to.Y - b_from.Y)
              IN  x >= a_from.X /\ x < a_to.X
    ELSE FALSE

lineSegmentsCollide(a_from, a_to, b_from, b_to) ==
    IF \/ (b_from.Y >= a_from.Y /\ b_to.Y <= a_from.Y)
       \/ (b_to.Y >= a_from.Y /\ b_from.Y <= a_from.Y)
    THEN IF b_to.Y = b_from.Y
         THEN \* std::swap of the two X values when b points backwards
              LET lo == IF b_to.X < b_from.X THEN b_to.X ELSE b_from.X
                  hi == IF b_to.X < b_from.X THEN b_from.X ELSE b_to.X
              IN  IF lo > a_to.X THEN FALSE
                  ELSE IF hi < a_from.X THEN FALSE
                  ELSE TRUE
         ELSE LET x == b_from.X
                       + TruncDiv((b_to.X - b_from.X) * (a_from.Y - b_from.Y),
                                  b_to.Y - b_from.Y)
              IN  x >= a_from.X /\ x <= a_to.X
    ELSE FALSE

\* the two assertions at the head of lineSegmentsCollide
CollideAsserts(a_from, a_to) ==
    /\ Abs(a_from.Y - a_to.Y) < 2
    /\ a_from.X - 2 <= a_to.X

InitCollide ==
    /\ pc = "call"
    /\ args \in {c \in [fn : {"lineSegmentsCollide"},
                        a_from : Grid(MaxCoordA), a_to : Grid(MaxCoordA),
                        b_from : Grid(MaxCoordB), b_to : Grid(MaxCoordB)] :
                   CollideAsserts(c.a_from, c.a_to)}
    /\ ret = [fn |-> "none"]

LineSegmentsCollide ==
    /\ pc = "call"
    /\ args.fn = "lineSegmentsCollide"
    /\ ret' = [fn |-> "lineSegmentsCollide",
               collide |-> lineSegmentsCollide(args.a_from, args.a_to,
                                               args.b_from, args.b_to)]
    /\ pc' = "done"
    /\ UNCHANGED args

NextCollide == LineSegmentsCollide

SpecCollide == InitCollide /\ [][NextCollide]_vars

CollideDone == pc = "done" /\ ret.fn = "lineSegmentsCollide"

\* the precondition the claims state: a horizontal, pointing in +X
AHorizontal == args.a_from.Y = args.a_to.Y /\ args.a_from.X <= args.a_to.X

\* q lies on the closed segment f-t (exactly)
OnSegment(q, f, t) ==
    /\ cross(Sub(t, f), Sub(q, f)) = 0
    /\ dot(Sub(q, f), Sub(q, t)) <= 0

\* C3: with a horizontal and a_from.X <= a_to.X, whenever an endpoint of a
\* lies on segment b (an endpoint of b included), lineSegmentsCollide
\* returns true.
C3_EndpointTouchCollides ==
    (/\ CollideDone
     /\ AHorizontal
     /\ \/ OnSegment(args.a_from, args.b_from, args.b_to)
        \/ OnSegment(args.a_to, args.b_from, args.b_to))
    => ret.collide

\* a slanted b passes through a's far endpoint, strictly inside b, and the
\* call has returned true
C3_Witness ==
    /\ CollideDone
    /\ AHorizontal
    /\ args.a_from.X < args.a_to.X
    /\ OnSegment(args.a_to, args.b_from, args.b_to)
    /\ args.a_to # args.b_from /\ args.a_to # args.b_to
    /\ args.b_from.X # args.b_to.X /\ args.b_from.Y # args.b_to.Y
    /\ ret.collide

\* C9: with a horizontal and a_from.X <= a_to.X, b not horizontal and b's
\* Y-range straddling a's Y, lineSegmentsCollide returns true iff the exact
\* rational X at which b crosses Y = a_from.Y lies in [a_from.X, a_to.X].
\* The exact X is b_from.X + n / d with n = (b_to.X - b_from.X) *
\* (a_from.Y - b_from.Y) and d = b_to.Y - b_from.Y; the comparison is
\* multiplied through by d * d > 0.
C9_ExactCrossingDecides ==
    (/\ CollideDone
     /\ AHorizontal
     /\ args.b_from.Y # args.b_to.Y
     /\ \/ (args.b_from.Y >= args.a_from.Y /\ args.b_to.Y <= args.a_from.Y)
        \/ (args.b_to.Y >= args.a_from.Y /\ args.b_from.Y <= args.a_from.Y))
    => LET d == args.b_to.Y - args.b_from.Y
           n == (args.b_to.X - args.b_from.X) * (args.a_from.Y - args.b_from.Y)
       IN  ret.collide <=>
             /\ (args.a_from.X - args.b_from.X) * d * d <= n * d
             /\ n * d <= (args.a_to.X - args.b_from.X) * d * d

(***************************************************************************)
(* intersection(a, b)                                                      *)
(***************************************************************************)
\* the lambda det of intersection
det(a, b) == a.X * b.Y - a.Y * b.X

Segments(n) == [from : Grid(n), to : Grid(n)]

\* a variant that takes the numerator from a.from - b.from
intersection_swapped(a, b) ==
    LET a_vec == getVector(a)
        b_vec == getVector(b)
        qwe   == det(Sub(a.from, b.from), a_vec)
        asd   == det(a_vec, b_vec)
    IN  IF asd = 0
        THEN [fallback |-> TRUE,
              point |-> Div(Add(Add(Add(a.from, a.to), b.from), b.to), 4)]
        ELSE [fallback |-> FALSE,
              point |-> Add(b.from, Div(Mul(b_vec, qwe), asd))]

\* a variant whose centroid rounds toward minus infinity
intersection_floor(a, b) ==
    LET a_vec == getVector(a)
        b_vec == getVector(b)
        qwe   == det(Sub(b.from, a.from), a_vec)
        asd   == det(a_vec, b_vec)
        sum   == Add(Add(Add(a.from, a.to), b.from), b.to)
    IN  IF asd = 0
        THEN [fallback |-> TRUE,
              point |-> Pt(TruncDivFloor(sum.X, 4), TruncDivFloor(sum.Y, 4))]
        ELSE [fallback |-> FALSE,
              point |-> Add(b.from, Div(Mul(b_vec, qwe), asd))]

\* the returned Point, and whether it came from the parallel-lines fallback
intersection(a, b) ==
    LET a_vec == getVector(a)
        b_vec == getVector(b)
        qwe   == det(Sub(b.from, a.from), a_vec)
        asd   == det(a_vec, b_vec)
    IN  IF asd = 0
        THEN [fallback |-> TRUE,
              point |-> Div(Add(Add(Add(a.from, a.to), b.from), b.to), 4)]
        ELSE [fallback |-> FALSE,
              point |-> Add(b.from, Div(Mul(b_vec, qwe), asd))]

InitIntersect ==
    /\ pc = "call"
    /\ args \in [fn : {"intersection"}, a : Segments(MaxCoordA),
                 b : Segments(MaxCoordB)]
    /\ ret = [fn |-> "none"]

Intersection ==
    /\ pc = "call"
    /\ args.fn = "intersection"
    /\ ret' = [fn |-> "intersection"] @@ intersection(args.a, args.b)
    /\ pc' = "done"
    /\ UNCHANGED args

NextIntersect == Intersection

SpecIntersect == InitIntersect /\ [][NextIntersect]_vars

IntersectDone == pc = "done" /\ ret.fn = "intersection"

\* The supporting lines are  cross(a_vec, q) = cross(a_vec, a.from)  and
\* cross(b_vec, q) = cross(b_vec, b.from).  By Cramer's rule their meeting
\* point q satisfies  D * q.X = MeetX  and  D * q.Y = MeetY  with
\* D = cross(a_vec, b_vec).
MeetD == cross(getVector(args.a), getVector(args.b))

MeetX ==
    cross(getVector(args.a), args.a.from) * getVector(args.b).X
      - cross(getVector(args.b), args.b.from) * getVector(args.a).X

MeetY ==
    cross(getVector(args.a), args.a.from) * getVector(args.b).Y
      - cross(getVector(args.b), args.b.from) * getVector(args.a).Y

MeetIsInteger ==
    /\ MeetD # 0
    /\ MeetX % Abs(MeetD) = 0
    /\ MeetY % Abs(MeetD) = 0

\* C4: when det(a_vec, b_vec) # 0 and the supporting lines meet at a point
\* with integer coordinates, intersection returns exactly that point,
\* whether or not it lies inside either segment.
C4_IntegerMeetingPointExact ==
    (IntersectDone /\ MeetIsInteger) =>
        /\ MeetD * ret.point.X = MeetX
        /\ MeetD * ret.point.Y = MeetY

\* the lines meet at an integer point that lies on neither segment and is
\* no endpoint, the lines are not axis-parallel, and the call has returned it
C4_Witness ==
    /\ IntersectDone
    /\ MeetIsInteger
    /\ MeetD * ret.point.X = MeetX
    /\ MeetD * ret.point.Y = MeetY
    /\ ~OnSegment(ret.point, args.a.from, args.a.to)
    /\ ~OnSegment(ret.point, args.b.from, args.b.to)
    /\ getVector(args.a).X # 0 /\ getVector(args.a).Y # 0
    /\ getVector(args.b).X # 0 /\ getVector(args.b).Y # 0

\* (x1 + x2 + x3 + x4) / 4 truncated toward zero
Quarter(s) == IF s >= 0 THEN s \div 4 ELSE -((-s) \div 4)

\* C5: when the direction vectors have zero determinant (parallel, collinear
\* or zero-length segments) intersection returns, per coordinate,
\* (a.from + a.to + b.from + b.to) / 4 truncated toward zero; for every
\* other input it does not return through this fallback.
C5_ParallelFallbackIsCentroid ==
    IntersectDone =>
        /\ ret.fallback <=> (det(getVector(args.a), getVector(args.b)) = 0)
        /\ ret.fallback =>
             /\ ret.point.X = Quarter(args.a.from.X + args.a.to.X
                                        + args.b.from.X + args.b.to.X)
             /\ ret.point.Y = Quarter(args.a.from.Y + args.a.to.Y
                                        + args.b.from.Y + args.b.to.Y)

\* two parallel segments of non-zero length, not collinear, whose coordinate
\* sums are negative and not multiples of four: the fallback was taken
C5_Witness ==
    /\ IntersectDone
    /\ ret.fallback
    /\ args.a.from # args.a.to /\ args.b.from # args.b.to
    /\ cross(getVector(args.a), Sub(args.b.from, args.a.from)) # 0
    /\ args.a.from.X + args.a.to.X + args.b.from.X + args.b.to.X < 0
    /\ (args.a.from.X + args.a.to.X + args.b.from.X + args.b.to.X) % 4 # 0
    /\ ret.point.X = Quarter(args.a.from.X + args.a.to.X
                               + args.b.from.X + args.b.to.X)

(***************************************************************************)
(* areParallel(a, b, allowed_error), areCollinear(a, b, allowed_error)     *)
(***************************************************************************)
\* allowed_error ranges over 0..MaxError
MaxError == 2

\* coord_t x = allowed_error * std::sqrt(dot_size): the double product,
\* truncated toward zero
ScaledSqrt(allowed_error, dot_size) ==
    IF allowed_error >= 0
    THEN ISqrt(allowed_error * allowed_error * dot_size)
    ELSE -ISqrt(allowed_error * allowed_error * dot_size)

areParallel(a, b, allowed_error) ==
    LET a_vec  == getVector(a)
        b_vec  == getVector(b)
        a_size == vSize(a_vec)
        b_size == vSize(b_vec)
    IN  IF a_size = 0 \/ b_size = 0 THEN TRUE
        ELSE LET dot_size          == Abs(dot(a_vec, b_vec))
                 dot_diff          == Abs(dot_size - a_size * b_size)
                 allowed_dot_error == ScaledSqrt(allowed_error, dot_size)
             IN  dot_diff < allowed_dot_error

areCollinear(a, b, allowed_error) ==
    LET lines_are_parallel   == areParallel(a, b, allowed_error)
        to_b_from_is_on_line == areParallel(Seg(a.from, b.from), b,
                                            allowed_error)
        to_b_to_is_on_line   == areParallel(Seg(a.from, b.to), b,
                                            allowed_error)
    IN  lines_are_parallel /\ to_b_from_is_on_line /\ to_b_to_is_on_line

InitParallel ==
    /\ pc = "call"
    /\ args \in [fn : {"areParallel", "areCollinear"},
                 a : Segments(MaxCoordA), b : Segments(MaxCoordB),
                 allowed_error : 0..MaxError]
    /\ ret = [fn |-> "none"]

AreParallel ==
    /\ pc = "call"
    /\ args.fn = "areParallel"
    /\ ret' = [fn |-> "areParallel",
               value |-> areParallel(args.a, args.b, args.allowed_error)]
    /\ pc' = "done"
    /\ UNCHANGED args

AreCollinear ==
    /\ pc = "call"
    /\ args.fn = "areCollinear"
    /\ ret' = [fn |-> "areCollinear",
               value |-> areCollinear(args.a, args.b, args.allowed_error)]
    /\ pc' = "done"
    /\ UNCHANGED args

NextParallel == AreParallel \/ AreCollinear

SpecParallel == InitParallel /\ [][NextParallel]_vars

\* C6: with allowed_error = 0 a segment is parallel to itself and to every
\* segment whose direction vector is a positive integer multiple of its own.
C6_ParallelToSelfAndMultiples ==
    (/\ pc = "done" /\ ret.fn = "areParallel"
     /\ args.allowed_error = 0
     /\ \/ args.b = args.a
        \/ \E k \in 1..(2 * MaxCoordB) :
              getVector(args.b) = Mul(getVector(args.a), k))
    => ret.value

\* C8: for pairwise distinct collinear points P0, P1, P2 and every
\* allowed_error >= 1, areCollinear((P0, P1), (P1, P2), allowed_error) is
\* true.
C8_CollinearPointsAreCollinear ==
    (/\ pc = "done" /\ ret.fn = "areCollinear"
     /\ args.allowed_error >= 1
     /\ args.a.to = args.b.from
     /\ args.a.from # args.a.to /\ args.b.from # args.b.to
     /\ args.a.from # args.b.to
     /\ cross(getVector(args.a), getVector(args.b)) = 0)
    => ret.value

(***************************************************************************)
(* projectedLength(to_project, onto)                                       *)
(***************************************************************************)
\* a variant whose division rounds toward minus infinity
projectedLength_floor(to_project, onto) ==
    LET cd      == Sub(onto.to, onto.from)
        cd_size == vSize(cd)
        a_projected == dot(Sub(to_project.from, onto.from), cd)
        b_projected == dot(Sub(to_project.to, onto.from), cd)
    IN  TruncDivFloor(b_projected - a_projected, cd_size)

projectedLength(to_project, onto) ==
    LET a  == to_project.from
        b  == to_project.to
        c  == onto.from
        d  == onto.to
        cd == Sub(d, c)
        cd_size == vSize(cd)
        ca == Sub(a, c)
        a_projected == dot(ca, cd)
        cb == Sub(b, c)
        b_projected == dot(cb, cd)
    IN  TruncDiv(b_projected - a_projected, cd_size)

\* assert(cd_size > 0) restricts onto
InitProject ==
    /\ pc = "call"
    /\ args \in {c \in [fn : {"projectedLength"},
                        to_project : Segments(MaxCoordA),
                        onto : Segments(MaxCoordB)] :
                   vSize(getVector(c.onto)) > 0}
    /\ ret = [fn |-> "none"]

ProjectedLength ==
    /\ pc = "call"
    /\ args.fn = "projectedLength"
    /\ ret' = [fn |-> "projectedLength",
               value |-> projectedLength(args.to_project, args.onto)]
    /\ pc' = "done"
    /\ UNCHANGED args

NextProject == ProjectedLength

SpecProject == InitProject /\ [][NextProject]_vars

ProjectDone == pc = "done" /\ ret.fn = "projectedLength"

\* to_project with its endpoints exchanged
Reversed(s) == Seg(s.to, s.from)

\* C7: for onto of non-zero length, projecting the reversed segment gives the
\* negated result: projectedLength((t.to, t.from), onto) =
\* -projectedLength((t.from, t.to), onto).
C7_ReversalNegates ==
    ProjectDone =>
        projectedLength(Reversed(args.to_project), args.onto) = -ret.value

\* a call whose quotient is not exact (the division truncates) and whose
\* result is not zero
C7_Witness ==
    /\ ProjectDone
    /\ ret.value # 0
    /\ dot(getVector(args.to_project), getVector(args.onto))
         % vSize(getVector(args.onto)) # 0
    /\ projectedLength(Reversed(args.to_project), args.onto) = -ret.value

(***************************************************************************)
(* The kernel as a whole: one call of any of the functions.                *)
(***************************************************************************)
Init ==
    \/ InitDist
    \/ InitCollide
    \/ InitIntersect
    \/ InitParallel
    \/ InitProject

Next ==
    \/ GetPointOnLineWithDist
    \/ LineSegmentsCollide
    \/ Intersection
    \/ AreParallel
    \/ AreCollinear
    \/ ProjectedLength

Spec == Init /\ [][Next]_vars

=============================================================================
